---- MODULE Spec2Model ----
(***************************************************************************)
(* reochat: the Matrix session lifecycle and event streaming of            *)
(* src/src/matrix.rs and the iced UI shell of src/src/lib.rs.              *)
(*                                                                         *)
(* One process at a time runs against the data directory.  The session    *)
(* file and the homeserver survive a restart; everything else is the       *)
(* state of the running process.  Message timestamps (Local::now()) are    *)
(* not modelled; the fields ev and txn of a message are history fields     *)
(* that name the homeserver event or the local submit an entry comes from. *)
(***************************************************************************)
EXTENDS Naturals, Sequences, FiniteSets

\* ------------------------------------------------------------------ bounds
MaxRuns == 2            \* processes started against the data directory
MaxSyncs == 3           \* successful sync responses the homeserver answers
MaxSyncFailures == 2    \* failed sync_once attempts in a row
MaxEvents == 2          \* room-message events the homeserver ever holds
MaxSubmits == 1         \* non-empty submits per process
MaxBuildRetries == 1    \* transient build errors in a row
MaxSessions == 3        \* client and user sessions the codec is applied to

\* ------------------------------------------------------------------ values
None == {}
Some(x) == {x}

Me == "@alice:example.org"
Bob == "@bob:example.org"
Pinned == "!room:example.org"
Other == "!other:example.org"
Texts == {"a"}

\* The kinds of room-message event another device or user can cause.
RemoteKinds ==
    { [sender |-> Bob, room_state |-> "Joined", room_id |-> Pinned, msgtype |-> "Text"],
      [sender |-> Bob, room_state |-> "Left",   room_id |-> Pinned, msgtype |-> "Text"],
      [sender |-> Bob, room_state |-> "Joined", room_id |-> Pinned, msgtype |-> "Image"],
      [sender |-> Bob, room_state |-> "Joined", room_id |-> Other,  msgtype |-> "Text"],
      [sender |-> Me,  room_state |-> "Joined", room_id |-> Pinned, msgtype |-> "Text"] }

\* ------------------------------------------------------------------ session store
\* FullSession { client_session, user_session, sync_token: Option<String> }
FullSession(cs, us, tok) ==
    [client_session |-> cs, user_session |-> us, sync_token |-> tok]

\* to_string without skip_serializing_if: a None token is written under the key
Serialize_AlwaysKey(fs) ==
    [client_session |-> fs.client_session, user_session |-> fs.user_session,
     sync_token |-> IF fs.sync_token = None THEN 0
                    ELSE CHOOSE t \in fs.sync_token : TRUE]

\* serde_json::to_string(&FullSession): the sync_token key is skipped when None.
Serialize(fs) ==
    IF fs.sync_token = None
    THEN [client_session |-> fs.client_session, user_session |-> fs.user_session]
    ELSE [client_session |-> fs.client_session, user_session |-> fs.user_session,
          sync_token |-> CHOOSE t \in fs.sync_token : TRUE]

\* serde_json::from_str::<FullSession>: a missing sync_token key reads as None.
Deserialize(doc) ==
    FullSession(doc.client_session, doc.user_session,
                IF "sync_token" \in DOMAIN doc THEN Some(doc.sync_token) ELSE None)

\* build_client: homeserver from the user id, db_path and passphrase drawn at random;
\* n names the n-th draw.
ClientSession(n) ==
    [homeserver |-> "https://example.org", db_path |-> n, passphrase |-> n]

\* matrix_auth.session() after an accepted login on the n-th client
MatrixSession(n) == [user_id |-> Me, device_id |-> n]

NoSession == FullSession(ClientSession(0), MatrixSession(0), None)

\* the contents of a file that holds no document
NoDoc == Serialize(NoSession)
Absent == [state |-> "absent", doc |-> NoDoc]
Truncated == [state |-> "truncated", doc |-> NoDoc]
Written(doc) == [state |-> "written", doc |-> doc]

\* run never finds the session file
SessionExists_Never(f) == FALSE

\* Path::exists
SessionExists(f) == f.state # "absent"

\* serde_json::from_str succeeds on a complete document only
Parses(f) == f.state = "written"

VARIABLES
    session_file,   \* data/session
    tokCtr,         \* homeserver: last next_batch handed out
    evCtr,          \* homeserver: last event id handed out
    pending,        \* homeserver: events not yet carried by a sync response
    csCtr,          \* ClientSessions generated so far (each one fresh random values)
    runs,           \* processes started so far
    authPc,         \* position of matrix::run in the running process
    candidate,      \* build_client: the ClientSession generated before the loop
    buildRetries,   \* build_client: transient errors seen by the loop in progress
    restored,       \* restore_session: the FullSession read
    authResult,     \* the value matrix::run returned
    write_buf,      \* the serialized session an fs::write in progress is writing
    enginePc,       \* position of matrix::sync
    phase,          \* "initial" until the handler is registered, then "live"
    sync_settings,  \* SyncSettings.token
    response,       \* next_batch of the response being processed
    inflight,       \* events of that response not yet dispatched
    handlers,       \* room-message handlers registered on the client
    syncFailures,   \* failed attempts of the initial loop in progress
    chan,           \* mpsc channel Sender<ClientMessage> -> Receiver
    compose_value,  \* Client.compose_value
    messages,       \* Client.messages
    client,         \* Client.client
    sync_token,     \* Client.sync_token
    sends,          \* send_message tasks in flight
    submits,        \* non-empty submits of this process
    command,        \* the Command the last call of update returned
    hist            \* history of the run, read by the properties only

vars == <<session_file, tokCtr, evCtr, pending, csCtr, runs, authPc, candidate,
          buildRetries, restored, authResult, write_buf, enginePc, phase,
          sync_settings, response, inflight, handlers, syncFailures, chan,
          compose_value, messages, client, sync_token, sends, submits, command,
          hist>>

\* ------------------------------------------------------------------ construction
\* Message { sender, contents, timestamp }
Message(sender, contents, ev, txn) ==
    [sender |-> sender, contents |-> contents, ev |-> ev, txn |-> txn]

\* Client::new: the state of a process that has just started
NewProcess ==
    /\ authPc' = "run"
    /\ candidate' = 0
    /\ buildRetries' = 0
    /\ restored' = NoSession
    /\ authResult' = NoSession
    /\ write_buf' = NoDoc
    /\ enginePc' = "new"
    /\ phase' = "initial"
    /\ sync_settings' = None
    /\ response' = 0
    /\ inflight' = <<>>
    /\ handlers' = 0
    /\ syncFailures' = 0
    /\ chan' = <<>>
    /\ compose_value' = ""
    /\ messages' = <<>>
    /\ client' = None
    /\ sync_token' = None
    /\ sends' = {}
    /\ submits' = 0
    /\ command' = {}

Init ==
    /\ session_file = Absent
    /\ tokCtr = 0
    /\ evCtr = 0
    /\ pending = <<>>
    /\ csCtr = 0
    /\ runs = 1
    /\ authPc = "run"
    /\ candidate = 0
    /\ buildRetries = 0
    /\ restored = NoSession
    /\ authResult = NoSession
    /\ write_buf = NoDoc
    /\ enginePc = "new"
    /\ phase = "initial"
    /\ sync_settings = None
    /\ response = 0
    /\ inflight = <<>>
    /\ handlers = 0
    /\ syncFailures = 0
    /\ chan = <<>>
    /\ compose_value = ""
    /\ messages = <<>>
    /\ client = None
    /\ sync_token = None
    /\ sends = {}
    /\ submits = 0
    /\ command = {}
    /\ hist = [startExists |-> FALSE, loginIssued |-> 0, factoryCalled |-> FALSE,
               loginAccepted |-> FALSE, loginRejected |-> FALSE,
               calls |-> {}, persisted |-> <<>>, initialEvents |-> {},
               carried |-> {}, handled |-> {}, failedLogins |-> 0,
               initPersists |-> 0, enginesStarted |-> 0, loginReturned |-> FALSE,
               retried |-> FALSE, written |-> {}]

serverVars == <<tokCtr, evCtr, pending>>
authVars == <<authPc, candidate, buildRetries, restored, authResult>>
engineVars == <<enginePc, phase, sync_settings, response, inflight, handlers, syncFailures>>
uiVars == <<compose_value, messages, client, sync_token, submits, command>>

\* ------------------------------------------------------------------ process
\* The process ends at any point (crash, kill, window closed) and the application
\* is started again on the same data directory.
Restart ==
    /\ runs < MaxRuns
    /\ runs' = runs + 1
    /\ NewProcess
    /\ hist' = [hist EXCEPT !.startExists = session_file.state # "absent",
                            !.loginIssued = 0, !.factoryCalled = FALSE,
                            !.loginRejected = FALSE, !.failedLogins = 0,
                            !.initPersists = 0, !.enginesStarted = 0,
                            !.retried = FALSE]
    /\ UNCHANGED <<session_file, serverVars, csCtr>>

\* ------------------------------------------------------------------ matrix::run
\* run: session_file.exists() chooses restore_session or login; login starts with
\* build_client, which draws db_path and passphrase before its loop.
Run ==
    /\ authPc = "run"
    /\ IF SessionExists(session_file)
       THEN /\ authPc' = "restore"
            /\ UNCHANGED <<candidate, csCtr, hist>>
       ELSE /\ authPc' = "build"
            /\ csCtr' = csCtr + 1
            /\ candidate' = csCtr + 1
            /\ hist' = [hist EXCEPT !.factoryCalled = TRUE]
    /\ UNCHANGED <<session_file, serverVars, runs, buildRetries, restored, authResult,
                   write_buf, engineVars, chan, uiVars, sends>>

\* restore_session: fs::read_to_string and serde_json::from_str
RestoreRead ==
    /\ authPc = "restore"
    /\ \E io_ok \in BOOLEAN :
         IF io_ok /\ Parses(session_file)
         THEN /\ restored' = Deserialize(session_file.doc)
              /\ authPc' = "restoreBuild"
         ELSE /\ authPc' = "err"
              /\ UNCHANGED restored
    /\ UNCHANGED <<session_file, serverVars, csCtr, runs, candidate, buildRetries,
                   authResult, write_buf, engineVars, chan, uiVars, sends, hist>>

\* restore_session: Client::builder()...build() and client.restore_session
RestoreBuild ==
    /\ authPc = "restoreBuild"
    /\ \E ok \in BOOLEAN :
         IF ok
         THEN /\ authResult' = restored
              /\ authPc' = "ok"
         ELSE /\ authPc' = "err"
              /\ UNCHANGED authResult
    /\ restored' = NoSession
    /\ UNCHANGED <<session_file, serverVars, csCtr, runs, candidate, buildRetries,
                   write_buf, engineVars, chan, uiVars, sends, hist>>

\* the loop draws db_path and passphrase anew for the next attempt
AfterTransient_Redraw(c) == c + 1

\* build_client: the values the next attempt uses after a transient error; they
\* are bound before the loop and the Err arm only prints
AfterTransient(c) == c

\* build_client: one turn of the loop
BuildClient ==
    /\ authPc = "build"
    /\ \E outcome \in {"ok", "transient", "fatal"} :
         CASE outcome = "ok" ->
                /\ authPc' = "login"
                /\ buildRetries' = 0
                /\ UNCHANGED candidate
           [] outcome = "transient" ->
                /\ buildRetries < MaxBuildRetries
                /\ buildRetries' = buildRetries + 1
                /\ candidate' = AfterTransient(candidate)
                /\ UNCHANGED authPc
           [] outcome = "fatal" ->
                /\ authPc' = "err"
                /\ buildRetries' = 0
                /\ UNCHANGED candidate
    /\ UNCHANGED <<session_file, serverVars, csCtr, runs, restored,
                   authResult, write_buf, engineVars, chan, uiVars, sends, hist>>

\* login goes on to write the session after a rejected login
AfterLoginError_Save == "save"

\* login: where a rejected login_username leads: the Err arm only logs, and
\* matrix_auth.session().expect(..) then panics on the missing session
AfterLoginError == "panicked"

\* login: login_username, then the session is serialized
LoginUsername ==
    /\ authPc = "login"
    /\ \E accepted \in BOOLEAN :
         IF accepted
         THEN /\ authPc' = "save"
              /\ write_buf' = Serialize(FullSession(ClientSession(candidate),
                                                    MatrixSession(candidate), None))
              /\ hist' = [hist EXCEPT !.loginIssued = @ + 1, !.loginAccepted = TRUE]
         ELSE /\ authPc' = AfterLoginError
              /\ UNCHANGED write_buf
              /\ hist' = [hist EXCEPT !.loginIssued = @ + 1, !.loginRejected = TRUE]
    /\ UNCHANGED <<session_file, serverVars, csCtr, runs, candidate, buildRetries,
                   restored, authResult, engineVars, chan, uiVars, sends>>

\* fs::write opens the file with create and truncate ...
LoginOpen ==
    /\ authPc = "save"
    /\ \E io_ok \in BOOLEAN :
         IF io_ok
         THEN /\ session_file' = Truncated
              /\ authPc' = "write"
         ELSE /\ authPc' = "err"
              /\ UNCHANGED session_file
    /\ UNCHANGED <<serverVars, csCtr, runs, candidate, buildRetries, restored,
                   authResult, write_buf, engineVars, chan, uiVars, sends, hist>>

\* ... and then writes the contents; login returns the client.
LoginWrite ==
    /\ authPc = "write"
    /\ \E io_ok \in BOOLEAN :
         IF io_ok
         THEN /\ session_file' = Written(write_buf)
              /\ authResult' = FullSession(ClientSession(candidate),
                                           MatrixSession(candidate), None)
              /\ authPc' = "ok"
              /\ hist' = [hist EXCEPT
                    !.loginReturned = TRUE,
                    !.written = @ \cup {[client_session |-> write_buf.client_session,
                                         user_session |-> write_buf.user_session]}]
         ELSE /\ authPc' = "err"
              /\ UNCHANGED <<session_file, authResult, hist>>
    /\ write_buf' = NoDoc
    /\ UNCHANGED <<serverVars, csCtr, runs, candidate, buildRetries, restored,
                   engineVars, chan, uiVars, sends>>

\* ------------------------------------------------------------------ homeserver
NoTxn == [run |-> 0, n |-> 0]

\* an OriginalSyncRoomMessageEvent together with the room it arrives in
Event(id, kind, body, txn) ==
    [id |-> id, sender |-> kind.sender, room_state |-> kind.room_state,
     room_id |-> kind.room_id, msgtype |-> kind.msgtype, body |-> body, txn |-> txn]

\* Another user, or another device of the user, posts to a room.
RemoteEvent ==
    /\ evCtr < MaxEvents
    /\ \E kind \in RemoteKinds, body \in Texts :
         pending' = Append(pending, Event(evCtr + 1, kind, body, NoTxn))
    /\ evCtr' = evCtr + 1
    /\ UNCHANGED <<session_file, tokCtr, csCtr, runs, authVars, write_buf, engineVars,
                   chan, uiVars, sends, hist>>

\* ------------------------------------------------------------------ event bridge
\* on_room_message without the check of the sender
on_room_message_NoSelfFilter(event, user_id) ==
    IF event.room_state # "Joined" THEN <<>>
    ELSE IF event.msgtype # "Text" THEN <<>>
    ELSE << Message(event.sender, event.body, event.id, event.txn) >>

\* on_room_message without the check of the message type
on_room_message_NoTypeFilter(event, user_id) ==
    IF event.room_state # "Joined" THEN <<>>
    ELSE IF user_id = event.sender THEN <<>>
    ELSE << Message(event.sender, event.body, event.id, event.txn) >>

\* on_room_message: what the handler sends on the channel for one event
on_room_message(event, user_id) ==
    IF event.room_state # "Joined" THEN <<>>
    ELSE IF user_id = event.sender THEN <<>>
    ELSE IF event.msgtype # "Text" THEN <<>>
    ELSE << Message(event.sender, event.body, event.id, event.txn) >>

RECURSIVE Repeat(_, _)
Repeat(n, s) == IF n = 0 THEN <<>> ELSE s \o Repeat(n - 1, s)

\* ------------------------------------------------------------------ matrix::sync
\* the handler is registered before the initial loop as well
RegistersBeforeInitialSync_Yes == TRUE

\* whether sync has registered the handler when it enters its initial loop
RegistersBeforeInitialSync == FALSE

\* sync carries on when persist_sync_token returns an error
AfterPersistError_Continue(ph) == IF ph = "initial" THEN "register" ELSE "sync"

\* where sync goes when persist_sync_token returns an error: `?` in the initial
\* loop, an Err from the callback in the long-poll
AfterPersistError(ph) == "terminated"

\* sync gives up on the first failed attempt
AfterSyncError_GiveUp(ph) == "terminated"

\* the long-poll callback drops the error and goes on to persist
AfterSyncError_Persist(ph) == IF ph = "initial" THEN "sync" ELSE "persist"

\* where sync goes when a sync attempt fails
AfterSyncError(ph) == IF ph = "initial" THEN "sync" ELSE "terminated"

\* persist_sync_token builds the document anew instead of updating the one read
persist_sync_token_Fresh(f, token) ==
    Serialize(FullSession(ClientSession(0), MatrixSession(0), Some(token)))

\* persist_sync_token: the document written back
persist_sync_token(f, token) ==
    Serialize([Deserialize(f.doc) EXCEPT !.sync_token = Some(token)])

\* sync_once, or one turn of sync_with_result_callback, answered by the homeserver:
\* the response carries a prefix of the pending events and a fresh next_batch.
SyncOk ==
    /\ enginePc = "sync"
    /\ tokCtr < MaxSyncs
    /\ \E k \in 0..Len(pending) :
         LET events == SubSeq(pending, 1, k)
             ids == {events[i].id : i \in 1..k}
             evs == {events[i] : i \in 1..k}
             nb == tokCtr + 1
             todo == IF handlers = 0 THEN <<>> ELSE events
         IN /\ pending' = SubSeq(pending, k + 1, Len(pending))
            /\ tokCtr' = nb
            /\ response' = nb
            /\ sync_settings' = Some(nb)
            /\ inflight' = todo
            /\ enginePc' = IF todo = <<>> THEN "persist" ELSE "dispatch"
            /\ syncFailures' = 0
            /\ hist' = [hist EXCEPT
                  !.calls = @ \cup {[cursor |-> sync_settings, next |-> nb]},
                  !.carried = @ \cup {<<id, nb>> : id \in ids},
                  !.initialEvents = IF phase = "initial" THEN @ \cup evs ELSE @]
    /\ UNCHANGED <<session_file, evCtr, csCtr, runs, authVars, write_buf, phase,
                   handlers, chan, uiVars, sends>>

\* a sync attempt fails: retried with the same settings in the initial loop, the end
\* of the long-poll
SyncErr ==
    /\ enginePc = "sync"
    /\ IF phase = "initial"
       THEN /\ syncFailures < MaxSyncFailures
            /\ syncFailures' = syncFailures + 1
            /\ hist' = [hist EXCEPT !.retried = TRUE]
       ELSE UNCHANGED <<syncFailures, hist>>
    /\ enginePc' = AfterSyncError(phase)
    /\ UNCHANGED <<session_file, serverVars, csCtr, runs, authVars, write_buf, phase,
                   sync_settings, response, inflight, handlers, chan, uiVars, sends>>

\* the client calls every registered handler on the next event of the response
HandleEvent ==
    /\ enginePc = "dispatch"
    /\ chan' = chan \o Repeat(handlers, on_room_message(Head(inflight), Me))
    /\ inflight' = Tail(inflight)
    /\ enginePc' = IF Tail(inflight) = <<>> THEN "persist" ELSE "dispatch"
    /\ hist' = [hist EXCEPT !.handled = @ \cup {Head(inflight)}]
    /\ UNCHANGED <<session_file, serverVars, csCtr, runs, authVars, write_buf, phase,
                   sync_settings, response, handlers, syncFailures, uiVars, sends>>

\* persist_sync_token: read, parse, set the token, serialize, open for writing
PersistOpen ==
    /\ enginePc = "persist"
    /\ \E io_ok \in BOOLEAN :
         IF io_ok /\ Parses(session_file)
         THEN /\ write_buf' = persist_sync_token(session_file, response)
              /\ session_file' = Truncated
              /\ enginePc' = "write"
         ELSE /\ enginePc' = AfterPersistError(phase)
              /\ UNCHANGED <<write_buf, session_file>>
    /\ UNCHANGED <<serverVars, csCtr, runs, authVars, phase, sync_settings, response,
                   inflight, handlers, syncFailures, chan, uiVars, sends, hist>>

\* persist_sync_token: the contents are written; sync leaves the initial loop or
\* the callback returns LoopCtrl::Continue
PersistWrite ==
    /\ enginePc = "write"
    /\ \E io_ok \in BOOLEAN :
         IF io_ok
         THEN /\ session_file' = Written(write_buf)
              /\ enginePc' = IF phase = "initial" THEN "register" ELSE "sync"
              /\ hist' = [hist EXCEPT
                    !.persisted = Append(@, response),
                    !.initPersists = IF phase = "initial" THEN @ + 1 ELSE @,
                    !.written = @ \cup {[client_session |-> write_buf.client_session,
                                         user_session |-> write_buf.user_session]}]
         ELSE /\ enginePc' = AfterPersistError(phase)
              /\ UNCHANGED <<session_file, hist>>
    /\ write_buf' = NoDoc
    /\ UNCHANGED <<serverVars, csCtr, runs, authVars, phase, sync_settings,
                   response, inflight, handlers, syncFailures, chan, uiVars, sends>>

\* client.add_event_handler, then on to sync_with_result_callback
Register ==
    /\ enginePc = "register"
    /\ handlers' = handlers + 1
    /\ phase' = "live"
    /\ enginePc' = "sync"
    /\ UNCHANGED <<session_file, serverVars, csCtr, runs, authVars, write_buf,
                   sync_settings, response, inflight, syncFailures, chan, uiVars,
                   sends, hist>>

\* ------------------------------------------------------------------ Client::update
\* the command of Client::new yields LoggedIn again
AfterLoggedIn_Again == "ok"

\* Client::new: Command::perform resolves once, to one message
AfterLoggedIn == "delivered"

\* the command of Client::new resolves to LoggedIn(client, token); update stores
\* both and starts start_event_loop
UpdateLoggedIn ==
    /\ authPc = "ok"
    /\ authPc' = AfterLoggedIn
    /\ client' = Some(authResult.client_session.db_path)
    /\ sync_token' = authResult.sync_token
    /\ enginePc' = "sync"
    /\ phase' = "initial"
    /\ sync_settings' = authResult.sync_token
    /\ handlers' = IF RegistersBeforeInitialSync THEN 1 ELSE 0
    /\ command' = {"start_event_loop"}
    /\ hist' = [hist EXCEPT !.enginesStarted = @ + 1]
    /\ UNCHANGED <<session_file, serverVars, csCtr, runs, candidate, buildRetries,
                   restored, authResult, write_buf, response, inflight, syncFailures,
                   chan, compose_value, messages, submits, sends>>

\* FailedLogin drops the stored client
OnFailedLogin_Logout(cl) == None

\* `ClientMessage::FailedLogin => Command::none()`: the stored client stays
OnFailedLogin(cl) == cl

\* FailedLogin: from the command of Client::new when run returned an error, and
\* from the command of LoggedIn when start_event_loop returned
UpdateFailedLogin ==
    /\ \/ /\ authPc = "err"
          /\ authPc' = "delivered"
          /\ UNCHANGED enginePc
       \/ /\ enginePc = "terminated"
          /\ enginePc' = "reported"
          /\ UNCHANGED authPc
    /\ hist' = [hist EXCEPT !.failedLogins = @ + 1]
    /\ command' = {}
    /\ client' = OnFailedLogin(client)
    /\ UNCHANGED <<session_file, serverVars, csCtr, runs, candidate, buildRetries,
                   restored, authResult, write_buf, phase, sync_settings, response,
                   inflight, handlers, syncFailures, chan, compose_value, messages,
                   sync_token, submits, sends>>

\* the new entry goes to the front
Push_Front(v, m) == <<m>> \o v

\* Vec::push
Push(v, m) == Append(v, m)

UpdateComposerTyped ==
    /\ \E s \in Texts \cup {""} :
         /\ s # compose_value
         /\ compose_value' = s
    /\ command' = {}
    /\ UNCHANGED <<session_file, serverVars, csCtr, runs, authVars, write_buf,
                   engineVars, chan, messages, client, sync_token, submits, sends, hist>>

\* MessageSubmitted: `if let Some(client) = &self.client`
Spawns(cl) == cl # None

\* MessageSubmitted: nothing on an empty composer; otherwise the local copy is
\* pushed, the composer cleared, and the commands are snap_to and, with a client,
\* the send to self.roomid
UpdateMessageSubmitted ==
    /\ IF compose_value = ""
       THEN /\ command' = {}
            /\ UNCHANGED <<messages, sends, compose_value, submits>>
       ELSE /\ submits < MaxSubmits
            /\ LET txn == [run |-> runs, n |-> submits + 1]
               IN /\ messages' = Push(messages, Message(Me, compose_value, 0, txn))
                  /\ sends' = IF Spawns(client)
                              THEN sends \cup {[txn |-> txn, roomid |-> Pinned,
                                                content |-> compose_value]}
                              ELSE sends
            /\ command' = IF Spawns(client) THEN {"snap_to", "send_message"}
                                            ELSE {"snap_to"}
            /\ compose_value' = ""
            /\ submits' = submits + 1
    /\ UNCHANGED <<session_file, serverVars, csCtr, runs, authVars, write_buf,
                   engineVars, chan, client, sync_token, hist>>

\* recv leaves the item it returned on the channel
AfterRecv_Keep(ch) == ch

\* Receiver::recv takes the oldest item off the channel
AfterRecv(ch) == Tail(ch)

\* PollMessages::stream yields the next item of the channel and update appends it
UpdateNewMessage ==
    /\ chan # <<>>
    /\ messages' = Push(messages, Head(chan))
    /\ chan' = AfterRecv(chan)
    /\ command' = {"snap_to"}
    /\ UNCHANGED <<session_file, serverVars, csCtr, runs, authVars, write_buf,
                   engineVars, compose_value, client, sync_token, submits, sends, hist>>

\* ------------------------------------------------------------------ send_message
\* the room send is accepted, the homeserver holds the event and update receives
\* ClientMessage::None; or the send fails and the unwrap panics in the task
SendMessage ==
    /\ \E s \in sends :
         /\ sends' = sends \ {s}
         /\ \E ok \in BOOLEAN :
              IF ok
              THEN /\ evCtr < MaxEvents
                   /\ evCtr' = evCtr + 1
                   /\ pending' = Append(pending,
                        Event(evCtr + 1,
                              [sender |-> Me, room_state |-> "Joined",
                               room_id |-> s.roomid, msgtype |-> "Text"],
                              s.content, s.txn))
                   /\ command' = {}
              ELSE UNCHANGED <<evCtr, pending, command>>
    /\ UNCHANGED <<session_file, tokCtr, csCtr, runs, authVars, write_buf, engineVars,
                   chan, compose_value, messages, client, sync_token, submits, hist>>

Next ==
    \/ Restart
    \/ Run \/ RestoreRead \/ RestoreBuild \/ BuildClient
    \/ LoginUsername \/ LoginOpen \/ LoginWrite
    \/ RemoteEvent
    \/ SyncOk \/ SyncErr \/ HandleEvent \/ PersistOpen \/ PersistWrite \/ Register
    \/ UpdateLoggedIn \/ UpdateFailedLogin \/ UpdateComposerTyped
    \/ UpdateMessageSubmitted \/ UpdateNewMessage
    \/ SendMessage

Spec == Init /\ [][Next]_vars

\* A process starts on a fresh data directory, or on the directory an earlier
\* process left after it logged in and persisted the token of its initial sync.
InitLive ==
    \/ Init
    \/ /\ session_file = Written(Serialize(FullSession(ClientSession(1),
                                                       MatrixSession(1), Some(1))))
       /\ tokCtr = 1
       /\ evCtr = 0
       /\ pending = <<>>
       /\ csCtr = 1
       /\ runs = 2
       /\ authPc = "run"
       /\ candidate = 0
       /\ buildRetries = 0
       /\ restored = NoSession
       /\ authResult = NoSession
       /\ write_buf = NoDoc
       /\ enginePc = "new"
       /\ phase = "initial"
       /\ sync_settings = None
       /\ response = 0
       /\ inflight = <<>>
       /\ handlers = 0
       /\ syncFailures = 0
       /\ chan = <<>>
       /\ compose_value = ""
       /\ messages = <<>>
       /\ client = None
       /\ sync_token = None
       /\ sends = {}
       /\ submits = 0
       /\ command = {}
       /\ hist = [startExists |-> TRUE, loginIssued |-> 0, factoryCalled |-> FALSE,
                  loginAccepted |-> TRUE, loginRejected |-> FALSE,
                  calls |-> {[cursor |-> None, next |-> 1]}, persisted |-> <<1>>,
                  initialEvents |-> {}, carried |-> {}, handled |-> {},
                  failedLogins |-> 0, initPersists |-> 0, enginesStarted |-> 0,
                  loginReturned |-> TRUE, retried |-> FALSE,
                  written |-> {[client_session |-> ClientSession(1),
                                user_session |-> MatrixSession(1)]}]

\* One process from its start on, its tasks scheduled fairly: the executor runs a
\* task that can take a step, and the iced runtime delivers command results and
\* subscription items to update.
NextLive ==
    \/ Run \/ RestoreRead \/ RestoreBuild \/ BuildClient
    \/ LoginUsername \/ LoginOpen \/ LoginWrite
    \/ RemoteEvent
    \/ SyncOk \/ SyncErr \/ HandleEvent \/ PersistOpen \/ PersistWrite \/ Register
    \/ UpdateLoggedIn \/ UpdateFailedLogin \/ UpdateComposerTyped
    \/ UpdateMessageSubmitted \/ UpdateNewMessage
    \/ SendMessage

Fairness ==
    /\ WF_vars(HandleEvent)
    /\ WF_vars(PersistOpen)
    /\ WF_vars(PersistWrite)
    /\ WF_vars(Register)
    /\ WF_vars(UpdateLoggedIn)
    /\ WF_vars(UpdateFailedLogin)
    /\ WF_vars(UpdateNewMessage)

SpecLive == InitLive /\ [][NextLive]_vars /\ Fairness

\* ------------------------------------------------------------------ the codec
\* the well-formed values of FullSession
SessionValues ==
    {FullSession(ClientSession(c), MatrixSession(u), t) :
        c \in 1..MaxSessions, u \in 1..MaxSessions,
        t \in {None} \cup {Some(k) : k \in 1..MaxSyncs}}

\* a FullSession is given; nothing else has happened
InitCodec ==
    /\ session_file = Absent
    /\ tokCtr = 0
    /\ evCtr = 0
    /\ pending = <<>>
    /\ csCtr = 0
    /\ runs = 1
    /\ authPc = "run"
    /\ candidate = 0
    /\ buildRetries = 0
    /\ restored \in SessionValues
    /\ authResult = NoSession
    /\ write_buf = NoDoc
    /\ enginePc = "new"
    /\ phase = "initial"
    /\ sync_settings = None
    /\ response = 0
    /\ inflight = <<>>
    /\ handlers = 0
    /\ syncFailures = 0
    /\ chan = <<>>
    /\ compose_value = ""
    /\ messages = <<>>
    /\ client = None
    /\ sync_token = None
    /\ sends = {}
    /\ submits = 0
    /\ command = {}
    /\ hist = [startExists |-> FALSE, loginIssued |-> 0, factoryCalled |-> FALSE,
               loginAccepted |-> FALSE, loginRejected |-> FALSE,
               calls |-> {}, persisted |-> <<>>, initialEvents |-> {},
               carried |-> {}, handled |-> {}, failedLogins |-> 0,
               initPersists |-> 0, enginesStarted |-> 0, loginReturned |-> FALSE,
               retried |-> FALSE, written |-> {}]

\* serde_json::to_string of the value, written to the session file
CodecSave ==
    /\ session_file = Absent
    /\ session_file' = Written(Serialize(restored))
    /\ UNCHANGED <<serverVars, csCtr, runs, authVars, write_buf, engineVars, chan,
                   uiVars, sends, hist>>

\* serde_json::from_str of the document in the file
CodecLoad ==
    /\ Parses(session_file)
    /\ authResult = NoSession
    /\ authResult' = Deserialize(session_file.doc)
    /\ UNCHANGED <<session_file, serverVars, csCtr, runs, authPc, candidate,
                   buildRetries, restored, write_buf, engineVars, chan, uiVars, sends,
                   hist>>

\* serde_json::to_string of the value read back
CodecResave ==
    /\ authResult # NoSession
    /\ write_buf = NoDoc
    /\ write_buf' = Serialize(authResult)
    /\ UNCHANGED <<session_file, serverVars, csCtr, runs, authVars, engineVars, chan,
                   uiVars, sends, hist>>

NextCodec == CodecSave \/ CodecLoad \/ CodecResave

SpecCodec == InitCodec /\ [][NextCodec]_vars

\* ------------------------------------------------------------------ main.rs
\* the process of src/main.rs has started; authPc is the position of main
InitMain ==
    /\ session_file = Absent
    /\ tokCtr = 0
    /\ evCtr = 0
    /\ pending = <<>>
    /\ csCtr = 0
    /\ runs = 1
    /\ authPc = "main"
    /\ candidate = 0
    /\ buildRetries = 0
    /\ restored = NoSession
    /\ authResult = NoSession
    /\ write_buf = NoDoc
    /\ enginePc = "new"
    /\ phase = "initial"
    /\ sync_settings = None
    /\ response = 0
    /\ inflight = <<>>
    /\ handlers = 0
    /\ syncFailures = 0
    /\ chan = <<>>
    /\ compose_value = ""
    /\ messages = <<>>
    /\ client = None
    /\ sync_token = None
    /\ sends = {}
    /\ submits = 0
    /\ command = {}
    /\ hist = [startExists |-> FALSE, loginIssued |-> 0, factoryCalled |-> FALSE,
               loginAccepted |-> FALSE, loginRejected |-> FALSE,
               calls |-> {}, persisted |-> <<>>, initialEvents |-> {},
               carried |-> {}, handled |-> {}, failedLogins |-> 0,
               initPersists |-> 0, enginesStarted |-> 0, loginReturned |-> FALSE,
               retried |-> FALSE, written |-> {}]

\* main: the three arguments are there, or usage is printed and the process exits
MainArgs ==
    /\ authPc = "main"
    /\ \E complete \in BOOLEAN :
         authPc' = IF complete THEN "mainBuild" ELSE "exited"
    /\ UNCHANGED <<session_file, serverVars, csCtr, runs, candidate, buildRetries,
                   restored, authResult, write_buf, engineVars, chan, uiVars, sends,
                   hist>>

\* login_and_sync: Client::builder().homeserver_url(..).build().await?
MainBuild ==
    /\ authPc = "mainBuild"
    /\ \E ok \in BOOLEAN :
         authPc' = IF ok THEN "mainLogin" ELSE "returnedErr"
    /\ UNCHANGED <<session_file, serverVars, csCtr, runs, candidate, buildRetries,
                   restored, authResult, write_buf, engineVars, chan, uiVars, sends,
                   hist>>

\* login_and_sync: login_username(..).send().await?
MainLogin ==
    /\ authPc = "mainLogin"
    /\ \E accepted \in BOOLEAN :
         authPc' = IF accepted THEN "mainSyncOnce" ELSE "returnedErr"
    /\ UNCHANGED <<session_file, serverVars, csCtr, runs, candidate, buildRetries,
                   restored, authResult, write_buf, engineVars, chan, uiVars, sends,
                   hist>>

\* login_and_sync: sync_once(SyncSettings::default()).await?.next_batch becomes
\* the token of the settings
MainSyncOnce ==
    /\ authPc = "mainSyncOnce"
    /\ \/ /\ tokCtr < MaxSyncs
          /\ \E k \in 0..Len(pending) :
               pending' = SubSeq(pending, k + 1, Len(pending))
          /\ tokCtr' = tokCtr + 1
          /\ sync_settings' = Some(tokCtr + 1)
          /\ authPc' = "mainSync"
       \/ /\ authPc' = "returnedErr"
          /\ UNCHANGED <<pending, tokCtr, sync_settings>>
    /\ UNCHANGED <<session_file, evCtr, csCtr, runs, candidate, buildRetries, restored,
                   authResult, write_buf, enginePc, phase, response, inflight, handlers,
                   syncFailures, chan, uiVars, sends, hist>>

\* Client::sync: after a successful turn the loop goes on (its callback always
\* answers LoopCtrl::Continue); it returns only with an error
AfterSyncTurn == "mainSync"

\* login_and_sync: a turn of the loop of client.sync(settings) that is answered
MainSync ==
    /\ authPc = "mainSync"
    /\ tokCtr < MaxSyncs
    /\ \E k \in 0..Len(pending) :
         pending' = SubSeq(pending, k + 1, Len(pending))
    /\ tokCtr' = tokCtr + 1
    /\ sync_settings' = Some(tokCtr + 1)
    /\ authPc' = AfterSyncTurn
    /\ UNCHANGED <<session_file, evCtr, csCtr, runs, candidate, buildRetries, restored,
                   authResult, write_buf, enginePc, phase, response, inflight, handlers,
                   syncFailures, chan, uiVars, sends, hist>>

\* login_and_sync: a turn of client.sync(settings) fails and `?` returns the error
MainSyncErr ==
    /\ authPc = "mainSync"
    /\ authPc' = "returnedErr"
    /\ UNCHANGED <<session_file, serverVars, csCtr, runs, candidate, buildRetries,
                   restored, authResult, write_buf, engineVars, chan, uiVars, sends,
                   hist>>

\* main: `login_and_sync(..).await?`, then Client::run
MainReturn ==
    /\ authPc \in {"returnedOk", "returnedErr"}
    /\ authPc' = IF authPc = "returnedOk" THEN "gui" ELSE "exited"
    /\ UNCHANGED <<session_file, serverVars, csCtr, runs, candidate, buildRetries,
                   restored, authResult, write_buf, engineVars, chan, uiVars, sends,
                   hist>>

NextMain ==
    \/ MainArgs \/ MainBuild \/ MainLogin \/ MainSyncOnce \/ MainSync \/ MainSyncErr
    \/ MainReturn
    \/ RemoteEvent

\* the tokio runtime drives main's future: a step main can take is taken; nothing
\* makes a sync fail
FairnessMain ==
    /\ WF_vars(MainArgs)
    /\ WF_vars(MainBuild)
    /\ WF_vars(MainLogin)
    /\ WF_vars(MainSyncOnce)
    /\ WF_vars(MainSync)
    /\ WF_vars(MainReturn)

SpecMain == InitMain /\ [][NextMain]_vars /\ FairnessMain

\* ------------------------------------------------------------------ properties
Last(s) == s[Len(s)]

\* the token the session file holds
FileToken == Deserialize(session_file.doc).sync_token

\* C1: when the session file exists at startup, run takes the restore path: no
\* password login is issued, build_client is not called, and the token run
\* returns is the one stored in the file.
C1_SessionIdempotence ==
    hist.startExists =>
        /\ hist.loginIssued = 0
        /\ ~hist.factoryCalled
        /\ authPc \in {"run", "restore", "restoreBuild", "ok", "err", "delivered"}
        /\ authPc = "ok" => /\ Parses(session_file)
                            /\ authResult.sync_token = FileToken

\* a restart after a run that logged in and persisted a token has restored it
C1_Witness ==
    /\ runs > 1
    /\ hist.startExists
    /\ hist.loginAccepted
    /\ authPc = "ok"
    /\ authResult.sync_token # None

\* C2: every token written to the session file is the next_batch of a successful
\* sync call that was issued with the token persisted before it (with no token
\* when none was persisted), and the file holds the last token persisted.
C2_MonotoneCursor ==
    /\ \A i \in 1..Len(hist.persisted) :
         \E c \in hist.calls :
            /\ c.next = hist.persisted[i]
            /\ c.cursor = IF i = 1 THEN None ELSE Some(hist.persisted[i - 1])
    /\ Parses(session_file) =>
         FileToken = IF hist.persisted = <<>> THEN None ELSE Some(Last(hist.persisted))

\* two tokens persisted, the second by a process that restored the session
C2_Witness ==
    /\ Len(hist.persisted) >= 2
    /\ hist.startExists
    /\ Parses(session_file)

Range(s) == {s[i] : i \in DOMAIN s}

\* the entries the bridge has produced: on the channel or already in the scrollback
Delivered == Range(chan) \cup {m \in Range(messages) : m.ev # 0}

\* C3: every submit of this process has exactly one entry in the scrollback, the
\* local copy, and no event sent by the authenticated user is on the channel.
C3_NoSelfDuplication ==
    /\ \A n \in 1..submits :
         LET own == {i \in DOMAIN messages : messages[i].txn = [run |-> runs, n |-> n]}
         IN /\ Cardinality(own) = 1
            /\ \A i \in own : messages[i].ev = 0
    /\ \A m \in Range(chan) : m.sender # Me /\ m.txn = NoTxn

\* the homeserver has echoed a submit of this process back, the handler has seen
\* the echo, and the sync loop has gone on
C3_Witness ==
    /\ \E e \in hist.handled : e.txn = [run |-> runs, n |-> 1]
    /\ \E i \in DOMAIN messages : messages[i].txn = [run |-> runs, n |-> 1]
    /\ phase = "live"
    /\ enginePc = "sync"

\* C4: every NewMessage the handler has enqueued comes from an event of a Joined
\* room whose message type is text.
C4_RoomFilterSound ==
    \A m \in Delivered :
        \E e \in hist.handled :
            /\ e.id = m.ev
            /\ e.room_state = "Joined"
            /\ e.msgtype = "Text"

\* the handler has seen an image and an event of a room that is not joined, and the
\* sync loop has gone on
C4_Witness ==
    /\ \E e \in hist.handled : e.msgtype = "Image"
    /\ \E e \in hist.handled : e.room_state # "Joined"
    /\ Delivered = {}
    /\ phase = "live"
    /\ enginePc = "sync"

IsBridge(m) == m.ev # 0

\* the sync response that carried event id
ResponseOf(id) == CHOOSE nb \in 1..tokCtr : <<id, nb>> \in hist.carried

\* C5: two events of one sync response that pass the filters are enqueued, and
\* appended to the scrollback, in the order the response carried them (the order
\* of their ids).
C5_OrderPreserved ==
    LET seq == SelectSeq(messages, IsBridge) \o chan
    IN \A i, j \in DOMAIN seq :
          (i < j /\ ResponseOf(seq[i].ev) = ResponseOf(seq[j].ev))
             => seq[i].ev < seq[j].ev

\* two events of one response in the scrollback with a local submit between them
C5_Witness ==
    \E i, j, k \in DOMAIN messages :
        /\ i < j /\ j < k
        /\ messages[i].ev # 0 /\ messages[j].ev = 0 /\ messages[k].ev # 0
        /\ ResponseOf(messages[i].ev) = ResponseOf(messages[k].ev)

\* C6: no event carried by an initial sync response is enqueued or appended.
C6_NoInitialReplay ==
    \A m \in Delivered : \A e \in hist.initialEvents : m.ev # e.id

\* an initial response carried an event the handler would have passed on, and the
\* engine is live
C6_Witness ==
    /\ \E e \in hist.initialEvents : on_room_message(e, Me) # <<>>
    /\ runs = 1
    /\ phase = "live"
    /\ enginePc = "sync"


\* a failed attempt of the initial loop
FailedInitialAttempt == phase = "initial" /\ syncFailures' = syncFailures + 1

\* C7 as amended: a failed sync_once attempt leaves the session file and the cursor
\* as they are and is retried; sync ends in the initial phase only on an error of
\* persist_sync_token; once live, exactly one token was persisted for the initial
\* sync and exactly one handler is registered; and after a successful sync_once
\* the engine becomes live unless persist_sync_token fails.
C7_TransientInitialSync ==
    /\ [][FailedInitialAttempt =>
            /\ session_file' = session_file
            /\ sync_settings' = sync_settings
            /\ hist'.persisted = hist.persisted
            /\ enginePc' = "sync"]_vars
    /\ [][(phase = "initial" /\ enginePc # "terminated" /\ enginePc' = "terminated")
            => enginePc \in {"persist", "write"}]_vars
    /\ [](phase = "live" => hist.initPersists = 1 /\ handlers = 1)
    /\ (phase = "initial" /\ enginePc = "persist")
          ~> (phase = "live" \/ enginePc \in {"terminated", "reported"})

\* C7 as stated: after a successful sync_once the engine always becomes live.
C7_Original ==
    /\ [](phase = "live" => hist.initPersists = 1 /\ handlers = 1)
    /\ (phase = "initial" /\ enginePc = "persist") ~> (phase = "live")

\* the engine is live after failed attempts, with one token persisted
C7_Witness ==
    /\ hist.retried
    /\ phase = "live"
    /\ hist.initPersists = 1
    /\ handlers = 1
    /\ hist.persisted # <<>>

\* C9 as stated: a rejected login makes run return an error, the UI then receives
\* exactly one FailedLogin, and neither a second login nor the Sync Engine follows.
C9_AuthErrorsSurfaced ==
    /\ hist.loginRejected => authPc \in {"err", "delivered"}
    /\ (authPc = "delivered" /\ hist.enginesStarted = 0) => hist.failedLogins = 1
    /\ hist.enginesStarted = 0 => (enginePc = "new" /\ hist.failedLogins <= 1)
    /\ hist.loginIssued <= 1

\* C10 as stated, at the point where a restarted process looks at the file: it is
\* absent or a complete FullSession.
C10_SessionFileAtomic ==
    authPc = "run" => session_file.state \in {"absent", "written"}


\* C11: all documents ever written to the session file name the same
\* client_session and user_session; a rewrite of a complete file changes nothing
\* but its sync_token; and build_client draws no new ClientSession once the file
\* exists.
C11_OneClientSession ==
    /\ [](Cardinality(hist.written) <= 1)
    /\ [][(Parses(session_file) /\ Parses(session_file'))
            => /\ session_file'.doc.client_session = session_file.doc.client_session
               /\ session_file'.doc.user_session = session_file.doc.user_session]_vars
    /\ [](Parses(session_file) =>
            [client_session |-> session_file.doc.client_session,
             user_session |-> session_file.doc.user_session] \in hist.written)
    /\ [][SessionExists(session_file) => csCtr' = csCtr]_vars

\* a restarted process has rewritten the file of the first login twice over
C11_Witness ==
    /\ runs > 1
    /\ hist.startExists
    /\ Len(hist.persisted) >= 2
    /\ Parses(session_file)
    /\ session_file.doc.client_session = ClientSession(1)
    /\ FileToken = Some(Last(hist.persisted))

\* the successful sync call that returned next_batch nb
CallOf(nb) == CHOOSE c \in hist.calls : c.next = nb

\* C12: for every bridge-delivered entry of the scrollback, the sync call that
\* carried its event was issued with a cursor, and that cursor (the token of the
\* response before) has been written to the session file.
C12_AfterPersistence ==
    \A m \in Range(messages) :
        m.ev # 0 =>
            LET c == CallOf(ResponseOf(m.ev))
            IN /\ c.cursor # None
               /\ c.cursor \subseteq Range(hist.persisted)

\* an event is visible while the token of its own response is not yet persisted
C12_Witness ==
    \E m \in Range(messages) :
        /\ m.ev # 0
        /\ ResponseOf(m.ev) \notin Range(hist.persisted)
        /\ enginePc \in {"persist", "write"}

\* C13: every submit of a non-empty composer, whatever the state of the login,
\* appends one local message with the composed text, clears the composer, returns
\* the scroll-to-end command and spawns a send of that text to the pinned room; a
\* submit of an empty composer appends nothing and sends nothing.
C13_SubmitSpawnsSend ==
    [][/\ submits' = submits + 1 =>
            /\ compose_value # ""
            /\ Len(messages') = Len(messages) + 1
            /\ Last(messages').sender = Me
            /\ Last(messages').contents = compose_value
            /\ compose_value' = ""
            /\ "snap_to" \in command'
            /\ "send_message" \in command'
            /\ \E s \in sends' \ sends :
                 s.content = compose_value /\ s.roomid = Pinned
       /\ (compose_value = "" /\ runs' = runs) =>
            /\ sends' \subseteq sends
            /\ Len(SelectSeq(messages', LAMBDA m : m.ev = 0))
                 = Len(SelectSeq(messages, LAMBDA m : m.ev = 0))]_vars

\* the entries of the scrollback that came over the channel
Bridged == SelectSeq(messages, IsBridge)

\* C14: the channel neither loses nor duplicates: the scrollback's bridged entries
\* followed by the channel change only by the handler enqueueing at the end or by
\* the head of the channel moving to the end of the scrollback, no event has two
\* entries there, and every entry on the channel is eventually in the scrollback.
C14_ChannelExactlyOnce ==
    /\ [][\/ /\ Bridged' = Bridged
              /\ Len(chan') >= Len(chan)
              /\ SubSeq(chan', 1, Len(chan)) = chan
           \/ /\ chan # <<>>
              /\ Bridged' = Append(Bridged, Head(chan))
              /\ chan' = Tail(chan)]_vars
    /\ [](LET seq == Bridged \o chan
          IN \A i, j \in DOMAIN seq : i # j => seq[i].ev # seq[j].ev)
    /\ \A id \in 1..MaxEvents :
         (\E i \in DOMAIN chan : chan[i].ev = id)
            ~> (\E i \in DOMAIN messages : messages[i].ev = id)

C14_Witness ==
    /\ Len(Bridged) >= 1
    /\ chan # <<>>
    /\ hist.handled # {}

\* sync has returned: with an error (the result waits for update), or the result
\* has been delivered
Returned == enginePc \in {"terminated", "reported"}

\* C15: in the long-poll the next sync is issued only with the token of the last
\* response persisted in the session file; the callback leaves persist_sync_token
\* either with that token written or with the loop terminated, a sync that brings
\* no response terminates the loop, and after sync has returned no sync is issued.
C15_PersistBeforeContinue ==
    /\ []((phase = "live" /\ enginePc = "sync") =>
            /\ hist.persisted # <<>>
            /\ sync_settings = Some(Last(hist.persisted))
            /\ FileToken = sync_settings)
    /\ [][(phase = "live" /\ runs' = runs) =>
            /\ (enginePc \in {"persist", "write"} /\ enginePc' \notin {"persist", "write"})
                 => \/ /\ enginePc' = "sync"
                       /\ hist'.persisted = Append(hist.persisted, response)
                       /\ session_file' = Written(Serialize(
                              [Deserialize(session_file'.doc)
                                 EXCEPT !.sync_token = Some(response)]))
                    \/ /\ enginePc' = "terminated"
                       /\ hist'.persisted = hist.persisted
            /\ (enginePc = "sync" /\ enginePc' # "sync")
                 => \/ tokCtr' = tokCtr + 1 /\ enginePc' \in {"dispatch", "persist"}
                    \/ tokCtr' = tokCtr /\ enginePc' = "terminated"
            /\ Returned => (Returned' /\ hist'.calls = hist.calls)]_vars

C15_Witness ==
    /\ phase = "live"
    /\ enginePc = "terminated"
    /\ Len(hist.persisted) >= 2
    /\ sync_settings # Some(Last(hist.persisted))

\* a step of the long-poll callback that leaves persist_sync_token without having
\* written the token
PersistFails ==
    /\ phase = "live"
    /\ enginePc \in {"persist", "write"}
    /\ enginePc' \notin {"persist", "write"}
    /\ hist'.persisted = hist.persisted

\* C16 as stated: an error of the save in the long-poll leaves the loop running.
C16_Original == [][PersistFails => enginePc' = "sync"]_vars

\* C16: an error of the save in the long-poll ends the Sync Engine: sync returns,
\* from then on no response is fetched and nothing is enqueued, and the result
\* reaches update as FailedLogin, which changes nothing in the UI.
C16_PersistErrorEndsLoop ==
    /\ [][PersistFails => enginePc' = "terminated"]_vars
    /\ [](Returned => inflight = <<>>)
    /\ [][Returned => /\ tokCtr' = tokCtr
                      /\ Len(chan') <= Len(chan)
                      /\ hist'.handled = hist.handled]_vars
    /\ [][(enginePc = "terminated" /\ enginePc' # "terminated") =>
            /\ enginePc' = "reported"
            /\ hist'.failedLogins = hist.failedLogins + 1
            /\ command' = {}
            /\ <<messages', compose_value', client'>> = <<messages, compose_value, client>>]_vars
    /\ (enginePc = "terminated") ~> (enginePc = "reported")

C16_Witness ==
    /\ phase = "live"
    /\ enginePc = "reported"
    /\ hist.failedLogins >= 1
    /\ hist.persisted # <<>>
    /\ sync_settings # Some(Last(hist.persisted))
    /\ pending # <<>>

\* login is between its open and the end of its write of the session file
LoginWrites == authPc \in {"save", "write"}

\* sync exists and has not returned
EngineRuns == enginePc \notin {"new", "terminated", "reported"}

\* C17: the session file has one writer at a time: login and the Sync Engine never
\* run together, a process starts at most one Sync Engine, and only after run has
\* returned; every change of the file is made by login before an engine exists or
\* by persist_sync_token of the one engine, and the token in the file is the last
\* one persisted.
C17_SingleWriter ==
    /\ [](~(LoginWrites /\ EngineRuns))
    /\ [](hist.enginesStarted <= 1)
    /\ [](enginePc # "new" => authPc = "delivered")
    /\ [][session_file' # session_file =>
            \/ LoginWrites /\ enginePc = "new" /\ enginePc' = "new"
            \/ /\ enginePc \in {"persist", "write"}
               /\ authPc = "delivered"
               /\ hist.enginesStarted = 1]_vars
    /\ []((Parses(session_file) /\ hist.persisted # <<>>)
            => FileToken = Some(Last(hist.persisted)))

C17_Witness ==
    /\ ~hist.startExists
    /\ hist.loginAccepted
    /\ hist.enginesStarted = 1
    /\ Len(hist.persisted) >= 2
    /\ enginePc = "write"

\* C18: a well-formed FullSession written and read back is the same value, and
\* serializing the value read gives the same document; the document has the
\* sync_token key exactly when the token is not None, and a document without the
\* key is read as None.
C18_RoundTrip ==
    /\ Parses(session_file) =>
         /\ ("sync_token" \in DOMAIN session_file.doc) <=> (restored.sync_token # None)
         /\ "sync_token" \in DOMAIN session_file.doc
               => restored.sync_token = Some(session_file.doc.sync_token)
    /\ authResult # NoSession =>
         /\ authResult = restored
         /\ "sync_token" \notin DOMAIN session_file.doc => authResult.sync_token = None
    /\ write_buf # NoDoc => write_buf = session_file.doc

C18_Witness ==
    /\ restored \in SessionValues
    /\ restored.sync_token # None
    /\ authResult = restored
    /\ write_buf = session_file.doc
    /\ DOMAIN write_buf = {"client_session", "user_session", "sync_token"}

\* C19: the retry loop of build_client is capped: a transient error that uses up
\* the attempts ends build with a terminal error instead of another attempt.
C19_RetryCapped ==
    [][(authPc = "build" /\ buildRetries' > buildRetries) =>
          (buildRetries' < MaxBuildRetries \/ authPc' = "err")]_vars

\* a send_message task ends without the homeserver holding the event
SendFails ==
    /\ runs' = runs
    /\ sends' # sends
    /\ sends' \subseteq sends
    /\ evCtr' = evCtr

\* C20: a failed room send reaches the UI: update is called with the failure, so
\* what update maintains or returns changes when a send fails.
C20_SendFailedSurfaced ==
    [][SendFails =>
          <<messages', compose_value', command'>> # <<messages, compose_value, command>>]_vars

\* C21: a transient build error is followed by another attempt with the values
\* drawn before the loop, so the ClientSession that login serializes and returns
\* names the values of every attempt; build_client leaves its loop only with a
\* client or, on any other error, with that error, and draws nothing in the loop.
C21_RetrySameValues ==
    /\ [][(authPc = "build" /\ runs' = runs) =>
            /\ candidate' = candidate
            /\ csCtr' = csCtr
            /\ authPc' \in {"build", "login", "err"}
            /\ buildRetries' > buildRetries =>
                 (authPc' = "build" /\ buildRetries' = buildRetries + 1)
            /\ authPc' # "build" => buildRetries' = 0]_vars
    /\ [](authPc \in {"build", "login", "save", "write"} =>
            (candidate = csCtr /\ candidate >= 1))
    /\ [](authPc \in {"save", "write"} =>
            write_buf.client_session = ClientSession(candidate))
    /\ []((authPc = "ok" /\ ~hist.startExists) =>
            authResult.client_session = ClientSession(candidate))

C21_Witness ==
    /\ authPc = "build"
    /\ buildRetries >= 1
    /\ candidate = csCtr

\* the state of the Sync Engine at position pc of sync in phase ph
EngineStateOf(pc, ph) ==
    IF pc = "new" THEN "NEW"
    ELSE IF pc \in {"terminated", "reported"} THEN "TERMINATED"
    ELSE IF pc = "register" THEN "HANDLER_REGISTERED"
    ELSE IF ph = "initial" THEN "INITIAL_SYNC"
    ELSE "LIVE"

\* the transitions of NEW -> INITIAL_SYNC -> HANDLER_REGISTERED -> LIVE -> TERMINATED
Forward ==
    { <<"NEW", "INITIAL_SYNC">>, <<"INITIAL_SYNC", "HANDLER_REGISTERED">>,
      <<"HANDLER_REGISTERED", "LIVE">>, <<"LIVE", "TERMINATED">> }

\* C22 as stated: the engine stays in its state or takes one of the forward
\* transitions, so TERMINATED is entered from LIVE only.
C22_Original ==
    [][LET from == EngineStateOf(enginePc, phase)
           to == EngineStateOf(enginePc', phase')
       IN from = to \/ <<from, to>> \in Forward]_vars

\* C22: the engine stays in its state or takes a forward transition, or goes from
\* INITIAL_SYNC to TERMINATED when persist_sync_token fails on the response of the
\* initial sync; a failed sync_once keeps it in INITIAL_SYNC, HANDLER_REGISTERED
\* is entered only with the token of the initial sync persisted, and after LIVE
\* no earlier state is entered again.
C22_EngineStateMachine ==
    [][LET from == EngineStateOf(enginePc, phase)
           to == EngineStateOf(enginePc', phase')
       IN /\ \/ from = to
             \/ <<from, to>> \in Forward
             \/ /\ <<from, to>> = <<"INITIAL_SYNC", "TERMINATED">>
                /\ enginePc \in {"persist", "write"}
                /\ hist'.persisted = hist.persisted
          /\ <<from, to>> = <<"INITIAL_SYNC", "HANDLER_REGISTERED">> =>
                /\ hist'.persisted = Append(hist.persisted, response)
                /\ sync_settings = Some(response)
          /\ from \in {"LIVE", "TERMINATED"} => to \in {"LIVE", "TERMINATED"}
          /\ from = "TERMINATED" => to = "TERMINATED"]_vars

C22_Witness ==
    /\ EngineStateOf(enginePc, phase) = "TERMINATED"
    /\ phase = "initial"
    /\ handlers = 0
    /\ hist.retried

\* C23: within one process every step leaves the scrollback as it is or appends
\* one entry at its end: the local copy on a submit of a non-empty composer, or
\* the head of the channel on NewMessage; no entry is removed, moved or changed,
\* whatever login, sync and send do.
C23_AppendOnly ==
    [][runs' = runs =>
         \/ messages' = messages
         \/ /\ Len(messages') = Len(messages) + 1
            /\ SubSeq(messages', 1, Len(messages)) = messages
            /\ \/ /\ compose_value # ""
                  /\ submits' = submits + 1
                  /\ Last(messages') = Message(Me, compose_value, 0,
                                               [run |-> runs, n |-> submits'])
                  /\ chan' = chan
               \/ /\ chan # <<>>
                  /\ Last(messages') = Head(chan)
                  /\ chan' = Tail(chan)
                  /\ submits' = submits]_vars

C23_Witness ==
    /\ Len(messages) >= 2
    /\ \E i, j \in DOMAIN messages : messages[i].ev = 0 /\ messages[j].ev # 0
    /\ enginePc \in {"terminated", "reported"}

\* what update keeps besides the composer
Kept == <<messages, client, sync_token>>

\* C24: within one process, a step that changes the composer without a submit
\* (ComposerTyped) changes nothing else of the UI and returns no command; a step
\* after which no command is returned (ComposerTyped, a submit of an empty
\* composer, FailedLogin, None) appends nothing, spawns no send and keeps client
\* and token; the delivery of run's error or of the result of start_event_loop
\* (FailedLogin) changes no UI state at all; LoggedIn stores the client and the
\* token run returned, starts the Sync Engine and leaves scrollback and composer.
C24_UpdateFrame ==
    [][runs' = runs =>
         /\ (compose_value' # compose_value /\ submits' = submits) =>
               /\ compose_value' \in Texts \cup {""}
               /\ Kept' = Kept
               /\ command' = {}
               /\ sends' = sends
               /\ <<authPc', enginePc', chan'>> = <<authPc, enginePc, chan>>
         /\ command' = {} =>
               /\ Kept' = Kept
               /\ submits' = submits
               /\ sends' \subseteq sends
         /\ compose_value = "" => (submits' = submits /\ sends' \subseteq sends)
         /\ hist'.failedLogins # hist.failedLogins =>
               /\ Kept' = Kept
               /\ compose_value' = compose_value
               /\ command' = {}
               /\ sends' = sends
         /\ (authPc = "ok" /\ authPc' # "ok") =>
               /\ client' = Some(authResult.client_session.db_path)
               /\ sync_token' = authResult.sync_token
               /\ messages' = messages
               /\ compose_value' = compose_value
               /\ command' = {"start_event_loop"}
               /\ enginePc = "new" /\ enginePc' = "sync"
               /\ sends' = sends]_vars

C24_Witness ==
    /\ enginePc = "reported"
    /\ hist.failedLogins = 1
    /\ client # None
    /\ command = {}
    /\ messages # <<>>
    /\ compose_value # ""

\* C25: every entry of the scrollback that came over the channel is from an event
\* of the pinned room.
C25_PinnedRoomOnly ==
    \A i \in DOMAIN messages :
        IsBridge(messages[i]) =>
            \A e \in hist.handled : e.id = messages[i].ev => e.room_id = Pinned

\* C26: in src/main.rs, once login and the first sync_once have succeeded, main
\* eventually reaches Client::run.
C26_GuiStarted == (authPc = "mainSync") ~> (authPc = "gui")

====
